---- MODULE Spec2Model ----
(***************************************************************************)
(* gobin: a versioned text-document store behind an HTTP API, with JWT     *)
(* capability tokens gating the mutating endpoints.                        *)
(*                                                                         *)
(* The source tree holds two revisions of the request handlers:            *)
(*   "routes.go"  = src/gobin/routes.go                                    *)
(*   "version.go" = the package gobin part of src/cmd/version.go (60..865) *)
(* The variable `revision` says which of the two route tables is serving.  *)
(* db.go and jwt.go are not in the tree; the operators named DB_*,         *)
(* GetClaims, NewToken and IsValid follow the written specification.       *)
(***************************************************************************)
EXTENDS Integers, Sequences, FiniteSets, TLC

VARIABLES revision, cfg, documents, tokens, now, resp, buckets, peer, pending

vars == <<revision, cfg, documents, tokens, now, resp, buckets, peer, pending>>

---------------------------------------------------------------------------
(* Bounds of the model *)

MaxDocs == 2
MaxTime == 2
MaxContentLen == 2
MaxTokens == 2
MaxLanguages == 1
MaxClients == 2
LimitRequests == 2
LimitWindow == 1

---------------------------------------------------------------------------
(* HTTP status codes written by the handlers *)

StatusOK == 200
StatusNoContent == 204
StatusBadRequest == 400
StatusForbidden == 403
StatusNotFound == 404
StatusTooManyRequests == 429
StatusInternalServerError == 500
StatusGatewayTimeout == 504

---------------------------------------------------------------------------
(* Value domains *)

Revisions == {"routes.go", "version.go"}

DocumentNames == <<"d1", "d2", "d3", "d4">>
DocumentIDs == {DocumentNames[i] : i \in 1..MaxDocs}

RECURSIVE Runes(_)
Runes(n) == IF n = 0 THEN "" ELSE "a" \o Runes(n - 1)

\* request bodies: the empty body and texts of 1..MaxContentLen runes
Bodies == {Runes(n) : n \in 0..MaxContentLen}

\* values of the Language request header
LanguageNames == <<"", "go", "auto", "text">>
LanguageHeaders == {LanguageNames[i] : i \in 1..MaxLanguages}

PermissionWrite == "write"
PermissionDelete == "delete"
PermissionShare == "share"
Permissions == {PermissionWrite, PermissionDelete, PermissionShare}

\* a permission string outside the enumeration, as a share request may carry
UnknownPermission == "admin"

\* claims of a request without an Authorization header
EmptyClaims == [Subject |-> "", Permissions |-> {}]

\* the integers a {version} path segment is drawn from
VersionInts == (0 - 1)..MaxTime

\* {version} path segments: absent, not a number, or a decimal integer
VersionParams == {"", "x"} \cup {ToString(i) : i \in VersionInts}

NoOut == [Key |-> "", Version |-> 0, Data |-> "", Language |-> "",
          Token |-> <<>>, Versions |-> 0, List |-> <<>>]

---------------------------------------------------------------------------
(* jwt.go (specification section 4.3) *)

\* the Authorization header is a sequence holding at most one signed token
GetClaims(hdr) == IF hdr = <<>> THEN EmptyClaims ELSE hdr[1]

NewToken(documentID, permissions) ==
    [Subject |-> documentID, Permissions |-> permissions]

IsValid(permission) == permission \in Permissions

\* headers a client can send: none, or a token the server has issued
Headers == {<<>>} \cup {<<t>> : t \in tokens}

---------------------------------------------------------------------------
(* chroma lexer lookup used by the version.go revision *)

\* lexers.Get(name).Config().Name; "" when no lexer has that name
LexerGet(language) == IF language \in {"go", "Go"} THEN "Go" ELSE ""

\* lexers.Analyse finds no lexer for these plain texts
LexerAnalyse(content) == ""

LexerName(language, content) ==
    LET lexer == IF language = "auto" \/ language = ""
                 THEN LexerAnalyse(content)
                 ELSE LexerGet(language)
    IN IF lexer = "" THEN "fallback" ELSE lexer

\* the language renderDocument reports for a stored document
RenderLanguage(language) ==
    IF LexerGet(language) = "" THEN "fallback" ELSE LexerGet(language)

\* a create that stores the lexer's name in both revisions
StoredLanguageNormalised(language, content) == LexerName(language, content)

StoredLanguage(language, content) ==
    IF revision = "version.go" THEN LexerName(language, content) ELSE language

---------------------------------------------------------------------------
(* db.go over the documents table, PRIMARY KEY (id, version) *)

Rows(docs, id) == {d \in docs : d.ID = id}

HasKey(docs, id, version) ==
    \E d \in docs : d.ID = id /\ d.Version = version

Latest(docs, id) ==
    CHOOSE d \in Rows(docs, id) : \A e \in Rows(docs, id) : e.Version <= d.Version

\* a table without a primary key: the new row is stored beside the old one
InsertUnchecked(docs, row) == [err |-> "", docs |-> docs \cup {row}]

\* a table without the primary key's check: the new row replaces the old one
InsertOrReplace(docs, row) ==
    [err |-> "",
     docs |-> {d \in docs : ~(d.ID = row.ID /\ d.Version = row.Version)} \cup {row}]

\* a table insert: the primary key rejects a second row with the same key
Insert(docs, row) ==
    IF HasKey(docs, row.ID, row.Version)
    THEN [err |-> "conflict", docs |-> docs]
    ELSE [err |-> "", docs |-> docs \cup {row}]

DB_CreateDocument(docs, id, content, language) ==
    LET doc == [ID |-> id, Version |-> now, Content |-> content, Language |-> language]
    IN [doc |-> doc] @@ Insert(docs, doc)

\* an update that is a plain insert: it does not ask whether the ID has rows
DB_UpdateDocumentUnchecked(docs, id, content, language) ==
    LET doc == [ID |-> id, Version |-> now, Content |-> content, Language |-> language]
    IN [doc |-> doc] @@ Insert(docs, doc)

DB_UpdateDocument(docs, id, content, language) ==
    LET doc == [ID |-> id, Version |-> now, Content |-> content, Language |-> language]
    IN IF Rows(docs, id) = {}
       THEN [doc |-> doc, err |-> "ErrNoRows", docs |-> docs]
       ELSE [doc |-> doc] @@ Insert(docs, doc)

DB_GetDocument(docs, id) ==
    IF Rows(docs, id) = {}
    THEN [err |-> "ErrNoRows", found |-> {}]
    ELSE [err |-> "", found |-> {Latest(docs, id)}]

DB_GetDocumentVersion(docs, id, version) ==
    LET found == {d \in Rows(docs, id) : d.Version = version}
    IN [err |-> IF found = {} THEN "ErrNoRows" ELSE "", found |-> found]

RECURSIVE Ascending(_)
Ascending(rows) ==
    IF rows = {} THEN <<>>
    ELSE LET first == CHOOSE d \in rows : \A e \in rows : d.Version <= e.Version
         IN <<first>> \o Ascending(rows \ {first})

DB_GetDocumentVersions(docs, id, withContent) ==
    LET all == Ascending(Rows(docs, id))
    IN [i \in 1..Len(all) |->
          [Version |-> all[i].Version,
           Data |-> IF withContent THEN all[i].Content ELSE "",
           Language |-> all[i].Language]]

DB_DeleteDocument(docs, id) ==
    IF Rows(docs, id) = {}
    THEN [err |-> "ErrNoRows", docs |-> docs]
    ELSE [err |-> "", docs |-> docs \ Rows(docs, id)]

DB_DeleteDocumentByVersion(docs, id, version) ==
    IF ~HasKey(docs, id, version)
    THEN [err |-> "ErrNoRows", docs |-> docs]
    ELSE [err |-> "", docs |-> {d \in docs : ~(d.ID = id /\ d.Version = version)}]

DB_GetVersionCount(docs, id) == Cardinality(Rows(docs, id))

\* IDs never handed out before: every created document got a token
FreshIDs(docs) ==
    {id \in DocumentIDs : Rows(docs, id) = {} /\ \A t \in tokens : t.Subject # id}

---------------------------------------------------------------------------
(* Helpers of the handlers *)

\* strconv.ParseInt(version, 10, 64)
ParseInt(s) ==
    IF \E i \in VersionInts : ToString(i) = s
    THEN [err |-> FALSE, val |-> CHOOSE i \in VersionInts : ToString(i) = s]
    ELSE [err |-> TRUE, val |-> 0]

\* parseDocumentVersion of the serving revision. written: it has answered 404.
\* version.go: no {version} segment gives 0, a bad one answers 404 and gives -1.
\* routes.go: an empty ID or segment, or a bad segment, answers 404 and gives ("", -1).
\* a parser for which a missing {version} segment is a bad one
parseDocumentVersionRequired(id, ver) ==
    LET n == ParseInt(ver)
        bad == [documentID |-> "", version |-> 0 - 1, written |-> TRUE]
    IN IF revision = "version.go"
       THEN IF n.err THEN [bad EXCEPT !.documentID = id]
            ELSE [documentID |-> id, version |-> n.val, written |-> FALSE]
       ELSE IF id = "" \/ ver = "" THEN bad
            ELSE IF n.err THEN bad
            ELSE [documentID |-> id, version |-> n.val, written |-> FALSE]

\* a parser that reads a {version} segment that is no number as version 0
parseDocumentVersionLenient(id, ver) ==
    LET n == ParseInt(ver)
        bad == [documentID |-> "", version |-> 0 - 1, written |-> TRUE]
    IN IF revision = "version.go"
       THEN [documentID |-> id, version |-> n.val, written |-> FALSE]
       ELSE IF id = "" \/ ver = "" THEN bad
            ELSE [documentID |-> id, version |-> n.val, written |-> FALSE]

parseDocumentVersion(id, ver) ==
    LET n == ParseInt(ver)
        bad == [documentID |-> "", version |-> 0 - 1, written |-> TRUE]
    IN IF revision = "version.go"
       THEN IF ver = "" THEN [documentID |-> id, version |-> 0, written |-> FALSE]
            ELSE IF n.err THEN [bad EXCEPT !.documentID = id]
            ELSE [documentID |-> id, version |-> n.val, written |-> FALSE]
       ELSE IF id = "" \/ ver = "" THEN bad
            ELSE IF n.err THEN bad
            ELSE [documentID |-> id, version |-> n.val, written |-> FALSE]

\* a gate that looks at the permission and forgets whose document the token is for
UnauthorizedIgnoringSubject(claims, documentID, permission) ==
    permission \notin claims.Permissions

\* a gate that also asks the store: the token of a deleted document is void
UnauthorizedOnceDeleted(claims, documentID, permission) ==
    \/ claims.Subject # documentID
    \/ permission \notin claims.Permissions
    \/ \A d \in documents : d.ID # documentID

\* the gate of PatchDocument, DeleteDocument and PostDocumentShare:
\* claims.Subject != documentID || !slices.Contains(claims.Permissions, permission)
Unauthorized(claims, documentID, permission) ==
    claims.Subject # documentID \/ permission \notin claims.Permissions

\* a size check that refuses content of exactly the maximum size too
exceedsMaxDocumentSizeInclusive(content) ==
    cfg.MaxDocumentSize > 0 /\ Len(content) >= cfg.MaxDocumentSize

\* len([]rune(content)) > MaxDocumentSize, with a maximum of 0 for no limit
exceedsMaxDocumentSize(content) ==
    cfg.MaxDocumentSize > 0 /\ Len(content) > cfg.MaxDocumentSize

\* what a request carried besides its path and its Authorization header
\* (option: the render query of a GET document, the withData query of a listing)
NoReq == [Content |-> "", Language |-> "", json |-> TRUE, Permissions |-> {},
          option |-> FALSE]

\* JSON bodies of a share request: undecodable, or a list of permission strings
ShareRequests ==
    {[NoReq EXCEPT !.json = FALSE]} \cup
    {[NoReq EXCEPT !.Permissions = P] :
        P \in (SUBSET Permissions) \cup
              {{UnknownPermission}, {PermissionWrite, UnknownPermission}}}

\* the response written (s.error / s.ok / w.WriteHeader), with the request it answers
Reply(op, id, ver, hdr, req, status, out) ==
    resp' = [op |-> op, id |-> id, ver |-> ver, claims |-> GetClaims(hdr),
             req |-> req, status |-> status, out |-> out]

\* no request is being served
NoResp == [op |-> "", id |-> "", ver |-> "", claims |-> EmptyClaims,
           req |-> NoReq, status |-> 0, out |-> NoOut]

\* a handler that answers every database error alike
ErrStatusInternal(err) == StatusInternalServerError

\* status of s.error for an error returned by the database layer
ErrStatus(err) ==
    IF err = "ErrNoRows" THEN StatusNotFound ELSE StatusInternalServerError

---------------------------------------------------------------------------
(* The rate limiter Routes puts in front of the handlers:                  *)
(* httprate.NewRateLimiter(Requests, Duration, KeyByIP, KeyByEndpoint)     *)

\* cfg.RateLimit of a server without a rate limit (a nil pointer)
NoRateLimit == [Requests |-> 0, Duration |-> 0]

\* network origins of the requests (RemoteAddr after middleware.RealIP)
ClientNames == <<"ip1", "ip2", "ip3">>
Clients == {ClientNames[i] : i \in 1..MaxClients}

\* a limiter built whenever a window is configured
RateLimitEnabledByDuration == cfg.RateLimit.Duration > 0

\* s.cfg.RateLimit != nil && Requests > 0 && Duration > 0
RateLimitEnabled == cfg.RateLimit.Requests > 0 /\ cfg.RateLimit.Duration > 0

\* a limiter in front of every request, without middleware.Maybe
IsLimitedMethodAny(method) == TRUE

\* a limiter in front of the PATCH and DELETE requests only
IsLimitedMethodWithoutPost(method) == method \in {"PATCH", "DELETE"}

\* middleware.Maybe: the limiter sees POST, PATCH and DELETE requests only
IsLimitedMethod(method) == method \in {"POST", "PATCH", "DELETE"}

\* one bucket for all the requests of a client
LimitKeyByIP(ip, path) == <<ip, "">>

\* httprate.WithKeyFuncs(KeyByIP, KeyByEndpoint): the client and the URL path
LimitKey(ip, path) == <<ip, path>>

\* the URL path of a request on the documents routes
Path(op, id, ver) ==
    IF op = "PostDocument" THEN "/documents"
    ELSE IF op = "PostDocumentShare" THEN "/documents/" \o id \o "/share"
    ELSE IF op = "DocumentVersions" THEN "/documents/" \o id \o "/versions"
    ELSE IF ver = "" THEN "/documents/" \o id
    ELSE "/documents/" \o id \o "/versions/" \o ver

Method(op) ==
    IF op \in {"PostDocument", "PostDocumentShare"} THEN "POST"
    ELSE IF op = "PatchDocument" THEN "PATCH"
    ELSE IF op \in {"DeleteDocument", "DeleteDocumentVersion"} THEN "DELETE"
    ELSE "GET"

\* the route table of the serving revision: the handler a method and path reach
Routed(op, ver) ==
    /\ op \in {"DeleteDocument", "GetDocument"} /\ revision = "routes.go" => ver = ""
    /\ op \in {"DeleteDocumentVersion", "GetDocumentVersion"} =>
          revision = "routes.go" /\ ver # ""

\* the limiter's buckets: for a key, the start of its window and the count
\* of the requests admitted in it
NoBuckets == [k \in {} |-> [start |-> 0, count |-> 0]]
NoBucket == [start |-> 0, count |-> 0]

\* the window a time falls in starts at a multiple of the window's length
WindowStart(t) == t - (t % cfg.RateLimit.Duration)

\* the bucket of key as it counts now: a bucket of an earlier window is empty
CurrentBucket(key) ==
    IF key \in DOMAIN buckets /\ buckets[key].start = WindowStart(now)
    THEN buckets[key]
    ELSE [start |-> WindowStart(now), count |-> 0]

\* the request being served: its origin, method and path, and the bucket
\* the limiter found stored for it (NoBucket: none, or the limiter was not asked)
NoPeer == [ip |-> "", method |-> "", path |-> "", found |-> NoBucket]

---------------------------------------------------------------------------
Init ==
    /\ revision \in Revisions
    /\ cfg = [MaxDocumentSize |-> 0, RateLimit |-> NoRateLimit]
    /\ documents = {}
    /\ tokens = {}
    /\ now = 1
    /\ resp = NoResp
    /\ buckets = NoBuckets
    /\ peer = NoPeer
    /\ pending = {}

\* the response has gone out and the handler has returned
Return ==
    /\ resp # NoResp
    /\ resp' = NoResp
    /\ peer' = NoPeer
    /\ UNCHANGED <<revision, cfg, documents, tokens, now, buckets, pending>>

\* the wall clock moves on by a second
Tick ==
    /\ resp = NoResp
    /\ now < MaxTime
    /\ now' = now + 1
    /\ UNCHANGED <<revision, cfg, documents, tokens, resp, buckets, peer, pending>>

\* a creator token that cannot be shared
CreatorPermissionsWithoutShare == {PermissionWrite, PermissionDelete}

\* the permissions PostDocument signs into the token of a new document
CreatorPermissions == {PermissionWrite, PermissionDelete, PermissionShare}

\* POST /documents; id is the random ID the database layer draws,
\* done: the request context is already cancelled, fail: the insert fails,
\* failAfter: the rendering or the signing of the token fails after the insert
PostDocument(id, content, language, done, fail, failAfter) ==
    LET req == [NoReq EXCEPT !.Content = content, !.Language = language]
        stored == StoredLanguage(language, content)
        r == DB_CreateDocument(documents, id, content, stored)
        token == NewToken(id, CreatorPermissions)
        Fail(status) == /\ Reply("PostDocument", "", "", <<>>, req, status, NoOut)
                        /\ UNCHANGED <<documents, tokens>>
    IN
    /\ resp = NoResp
    /\ id \in FreshIDs(documents)
    /\ UNCHANGED <<revision, cfg, now>>
    /\ IF content = "" THEN Fail(StatusBadRequest)
       ELSE IF revision = "version.go" /\ done THEN Fail(StatusGatewayTimeout)
       ELSE IF exceedsMaxDocumentSize(content) THEN Fail(StatusBadRequest)
       ELSE IF fail \/ r.err # "" THEN Fail(StatusInternalServerError)
       ELSE IF failAfter
       THEN /\ documents' = r.docs
            /\ UNCHANGED tokens
            /\ Reply("PostDocument", "", "", <<>>, req, StatusInternalServerError, NoOut)
       ELSE /\ documents' = r.docs
            /\ tokens' = tokens \cup {token}
            /\ Reply("PostDocument", "", "", <<>>, req, StatusOK,
                     [NoOut EXCEPT !.Key = r.doc.ID, !.Version = r.doc.Version,
                                   !.Token = <<token>>])

\* an update that writes its row under the first document's ID, whatever
\* document the request names
PatchDocumentOfFirst(id, hdr, content, language, done, fail, failAfter) ==
    LET req == [NoReq EXCEPT !.Content = content, !.Language = language]
        claims == GetClaims(hdr)
        stored == StoredLanguage(language, content)
        r == DB_UpdateDocument(documents, DocumentNames[1], content, stored)
        Fail(status) == /\ Reply("PatchDocument", id, "", hdr, req, status, NoOut)
                        /\ UNCHANGED documents
    IN
    /\ resp = NoResp
    /\ UNCHANGED <<revision, cfg, now, tokens>>
    /\ IF Unauthorized(claims, id, PermissionWrite)
       THEN Fail(StatusNotFound)
       ELSE IF content = "" THEN Fail(StatusBadRequest)
       ELSE IF revision = "version.go" /\ done THEN Fail(StatusGatewayTimeout)
       ELSE IF exceedsMaxDocumentSize(content) THEN Fail(StatusBadRequest)
       ELSE IF fail THEN Fail(StatusInternalServerError)
       ELSE IF r.err # "" THEN Fail(ErrStatus(r.err))
       ELSE IF revision = "version.go" /\ failAfter
       THEN /\ documents' = r.docs
            /\ Reply("PatchDocument", id, "", hdr, req, StatusInternalServerError, NoOut)
       ELSE /\ documents' = r.docs
            /\ Reply("PatchDocument", id, "", hdr, req, StatusOK,
                     [NoOut EXCEPT !.Key = r.doc.ID, !.Version = r.doc.Version])

\* PATCH /documents/{documentID}
\* failAfter: the rendering of the updated document fails (version.go)
PatchDocument(id, hdr, content, language, done, fail, failAfter) ==
    LET req == [NoReq EXCEPT !.Content = content, !.Language = language]
        claims == GetClaims(hdr)
        stored == StoredLanguage(language, content)
        r == DB_UpdateDocument(documents, id, content, stored)
        Fail(status) == /\ Reply("PatchDocument", id, "", hdr, req, status, NoOut)
                        /\ UNCHANGED documents
    IN
    /\ resp = NoResp
    /\ UNCHANGED <<revision, cfg, now, tokens>>
    /\ IF Unauthorized(claims, id, PermissionWrite)
       THEN Fail(StatusNotFound)
       ELSE IF content = "" THEN Fail(StatusBadRequest)
       ELSE IF revision = "version.go" /\ done THEN Fail(StatusGatewayTimeout)
       ELSE IF exceedsMaxDocumentSize(content) THEN Fail(StatusBadRequest)
       ELSE IF fail THEN Fail(StatusInternalServerError)
       ELSE IF r.err # "" THEN Fail(ErrStatus(r.err))
       ELSE IF revision = "version.go" /\ failAfter
       THEN /\ documents' = r.docs
            /\ Reply("PatchDocument", id, "", hdr, req, StatusInternalServerError, NoOut)
       ELSE /\ documents' = r.docs
            /\ Reply("PatchDocument", id, "", hdr, req, StatusOK,
                     [NoOut EXCEPT !.Key = r.doc.ID, !.Version = r.doc.Version])

\* DELETE /documents/{documentID}, and in version.go also
\* DELETE /documents/{documentID}/versions/{version}.
\* fail: the delete statement fails, failCount: the count query fails
DeleteDocument(id, ver, hdr, fail, failCount) ==
    LET claims == GetClaims(hdr)
        p == parseDocumentVersion(id, ver)
        r == IF revision = "routes.go" \/ p.version = 0
             THEN DB_DeleteDocument(documents, id)
             ELSE DB_DeleteDocumentByVersion(documents, id, p.version)
        Fail(status) == /\ Reply("DeleteDocument", id, ver, hdr, NoReq, status, NoOut)
                        /\ UNCHANGED documents
    IN
    /\ resp = NoResp
    /\ revision = "routes.go" => ver = ""
    /\ UNCHANGED <<revision, cfg, now, tokens>>
    /\ IF revision = "version.go" /\ p.version = 0 - 1
       THEN \* a handler that returns without writing is answered 200 by net/http
            Fail(IF p.written THEN StatusNotFound ELSE StatusOK)
       ELSE IF Unauthorized(claims, id, PermissionDelete)
       THEN Fail(StatusNotFound)
       ELSE IF fail THEN Fail(StatusInternalServerError)
       ELSE IF r.err # "" THEN Fail(ErrStatus(r.err))
       ELSE /\ documents' = r.docs
            /\ IF revision = "routes.go" \/ p.version = 0
               THEN \* the 204 header is out: the later status and body are dropped
                    Reply("DeleteDocument", id, ver, hdr, NoReq, StatusNoContent, NoOut)
               ELSE IF failCount
               THEN Reply("DeleteDocument", id, ver, hdr, NoReq,
                          StatusInternalServerError, NoOut)
               ELSE Reply("DeleteDocument", id, ver, hdr, NoReq, StatusOK,
                          [NoOut EXCEPT !.Versions = DB_GetVersionCount(r.docs, id)])

\* a delete-version handler that counts the versions before it deletes
DeleteDocumentVersionCountFirst(id, ver, hdr, fail, failCount) ==
    LET p == parseDocumentVersion(id, ver)
        r == DB_DeleteDocumentByVersion(documents, p.documentID, p.version)
        Fail(status) == /\ Reply("DeleteDocumentVersion", id, ver, hdr, NoReq, status, NoOut)
                        /\ UNCHANGED documents
    IN
    /\ resp = NoResp
    /\ revision = "routes.go"
    /\ ver # ""
    /\ UNCHANGED <<revision, cfg, now, tokens>>
    /\ IF p.documentID = "" THEN Fail(StatusNotFound)
       ELSE IF fail THEN Fail(StatusInternalServerError)
       ELSE IF r.err # "" THEN Fail(ErrStatus(r.err))
       ELSE /\ documents' = r.docs
            /\ IF failCount
               THEN Reply("DeleteDocumentVersion", id, ver, hdr, NoReq,
                          StatusInternalServerError, NoOut)
               ELSE Reply("DeleteDocumentVersion", id, ver, hdr, NoReq, StatusOK,
                          [NoOut EXCEPT !.Versions =
                              DB_GetVersionCount(documents, p.documentID)])

\* routes.go only: DELETE /documents/{documentID}/versions/{version}
DeleteDocumentVersion(id, ver, hdr, fail, failCount) ==
    LET p == parseDocumentVersion(id, ver)
        r == DB_DeleteDocumentByVersion(documents, p.documentID, p.version)
        Fail(status) == /\ Reply("DeleteDocumentVersion", id, ver, hdr, NoReq, status, NoOut)
                        /\ UNCHANGED documents
    IN
    /\ resp = NoResp
    /\ revision = "routes.go"
    /\ ver # ""
    /\ UNCHANGED <<revision, cfg, now, tokens>>
    /\ IF p.documentID = "" THEN Fail(StatusNotFound)
       ELSE IF fail THEN Fail(StatusInternalServerError)
       ELSE IF r.err # "" THEN Fail(ErrStatus(r.err))
       ELSE /\ documents' = r.docs
            /\ IF failCount
               THEN Reply("DeleteDocumentVersion", id, ver, hdr, NoReq,
                          StatusInternalServerError, NoOut)
               ELSE Reply("DeleteDocumentVersion", id, ver, hdr, NoReq, StatusOK,
                          [NoOut EXCEPT !.Versions =
                              DB_GetVersionCount(r.docs, p.documentID)])

\* a share handler that checks the requested permissions before the gate
shareStatusEscalationFirst(claims, id, shareRequest) ==
    IF ~shareRequest.json THEN StatusBadRequest
    ELSE IF shareRequest.Permissions = {} THEN StatusBadRequest
    ELSE IF \E permission \in shareRequest.Permissions : ~IsValid(permission)
    THEN StatusBadRequest
    ELSE IF \E permission \in shareRequest.Permissions :
               permission \notin claims.Permissions
    THEN StatusForbidden
    ELSE IF Unauthorized(claims, id, PermissionShare) THEN StatusNotFound
    ELSE StatusOK

\* a share handler without the loop that refuses permissions the requester lacks
shareStatusNoEscalationCheck(claims, id, shareRequest) ==
    IF ~shareRequest.json THEN StatusBadRequest
    ELSE IF shareRequest.Permissions = {} THEN StatusBadRequest
    ELSE IF \E permission \in shareRequest.Permissions : ~IsValid(permission)
    THEN StatusBadRequest
    ELSE IF Unauthorized(claims, id, PermissionShare) THEN StatusNotFound
    ELSE StatusOK

\* a share handler that runs the gate before it decodes the body
shareStatusGateFirst(claims, id, shareRequest) ==
    IF Unauthorized(claims, id, PermissionShare) THEN StatusNotFound
    ELSE IF ~shareRequest.json THEN StatusBadRequest
    ELSE IF shareRequest.Permissions = {} THEN StatusBadRequest
    ELSE IF \E permission \in shareRequest.Permissions : ~IsValid(permission)
    THEN StatusBadRequest
    ELSE IF \E permission \in shareRequest.Permissions :
               permission \notin claims.Permissions
    THEN StatusForbidden
    ELSE StatusOK

\* a share handler without the gate: any token may pass on what it holds
shareStatusWithoutGate(claims, id, shareRequest) ==
    IF ~shareRequest.json THEN StatusBadRequest
    ELSE IF shareRequest.Permissions = {} THEN StatusBadRequest
    ELSE IF \E permission \in shareRequest.Permissions : ~IsValid(permission)
    THEN StatusBadRequest
    ELSE IF \E permission \in shareRequest.Permissions :
               permission \notin claims.Permissions
    THEN StatusForbidden
    ELSE StatusOK

\* the checks of PostDocumentShare in the order the handler makes them:
\* the status it answers, StatusOK when it goes on to sign a token
shareStatus(claims, id, shareRequest) ==
    IF ~shareRequest.json THEN StatusBadRequest
    ELSE IF shareRequest.Permissions = {} THEN StatusBadRequest
    ELSE IF \E permission \in shareRequest.Permissions : ~IsValid(permission)
    THEN StatusBadRequest
    ELSE IF Unauthorized(claims, id, PermissionShare) THEN StatusNotFound
    ELSE IF \E permission \in shareRequest.Permissions :
               permission \notin claims.Permissions
    THEN StatusForbidden
    ELSE StatusOK

\* POST /documents/{documentID}/share
PostDocumentShare(id, hdr, shareRequest) ==
    LET claims == GetClaims(hdr)
        status == shareStatus(claims, id, shareRequest)
        token == NewToken(id, shareRequest.Permissions)
    IN
    /\ resp = NoResp
    /\ UNCHANGED <<revision, cfg, now, documents>>
    /\ IF status # StatusOK
       THEN /\ Reply("PostDocumentShare", id, "", hdr, shareRequest, status, NoOut)
            /\ UNCHANGED tokens
       ELSE \* the client keeps at most MaxTokens distinct tokens
            /\ token \in tokens \/ Cardinality(tokens) < MaxTokens
            /\ tokens' = tokens \cup {token}
            /\ Reply("PostDocumentShare", id, "", hdr, shareRequest, StatusOK,
                     [NoOut EXCEPT !.Token = <<token>>])

\* a getDocument that serves only the holder of a token for the document
getDocumentGated(id, ver, hdr, fail) ==
    LET p == parseDocumentVersion(id, ver)
        r == IF revision = "routes.go" \/ p.version = 0
             THEN DB_GetDocument(documents, id)
             ELSE DB_GetDocumentVersion(documents, id, p.version)
    IN IF GetClaims(hdr).Subject # id
       THEN [status |-> StatusNotFound, found |-> {}]
       ELSE IF revision = "version.go" /\ p.version = 0 - 1
       THEN [status |-> IF p.written THEN StatusNotFound ELSE StatusOK, found |-> {}]
       ELSE IF fail THEN [status |-> StatusInternalServerError, found |-> {}]
       ELSE IF r.err # "" THEN [status |-> ErrStatus(r.err), found |-> {}]
       ELSE [status |-> StatusOK, found |-> r.found]

\* a getDocument that takes "no rows" for an empty document, as it does an empty ID
getDocumentEmptyOnNoRows(id, ver, hdr, fail) ==
    LET p == parseDocumentVersion(id, ver)
        r == IF revision = "routes.go" \/ p.version = 0
             THEN DB_GetDocument(documents, id)
             ELSE DB_GetDocumentVersion(documents, id, p.version)
    IN IF revision = "version.go" /\ p.version = 0 - 1
       THEN [status |-> IF p.written THEN StatusNotFound ELSE StatusOK, found |-> {}]
       ELSE IF fail THEN [status |-> StatusInternalServerError, found |-> {}]
       ELSE [status |-> StatusOK, found |-> r.found]

\* Server.getDocument: the document the request names (found), or no document
\* and the status answered; fail: the select fails.
\* A handler that returns without writing is answered 200 by net/http.
getDocument(id, ver, hdr, fail) ==
    LET p == parseDocumentVersion(id, ver)
        r == IF revision = "routes.go" \/ p.version = 0
             THEN DB_GetDocument(documents, id)
             ELSE DB_GetDocumentVersion(documents, id, p.version)
    IN IF revision = "version.go" /\ p.version = 0 - 1
       THEN [status |-> IF p.written THEN StatusNotFound ELSE StatusOK, found |-> {}]
       ELSE IF fail THEN [status |-> StatusInternalServerError, found |-> {}]
       ELSE IF r.err # "" THEN [status |-> ErrStatus(r.err), found |-> {}]
       ELSE [status |-> StatusOK, found |-> r.found]

\* GET /documents/{documentID}, and in version.go also
\* GET /documents/{documentID}/versions/{version}.
\* render: the query asks for a rendering
GetDocument(id, ver, hdr, render, fail) ==
    LET g == getDocument(id, ver, hdr, fail)
        document == CHOOSE d \in g.found : TRUE
        Answer(status, out) ==
            Reply("GetDocument", id, ver, hdr, [NoReq EXCEPT !.option = render],
                  status, out)
    IN
    /\ resp = NoResp
    /\ revision = "routes.go" => ver = "" /\ ~render
    /\ UNCHANGED <<revision, cfg, now, documents, tokens>>
    /\ IF g.found = {} THEN Answer(g.status, NoOut)
       ELSE IF revision = "routes.go"
       THEN Answer(StatusOK,
                   [NoOut EXCEPT !.Key = document.ID, !.Version = document.Version,
                                 !.Data = document.Content,
                                 !.Language = document.Language])
       ELSE Answer(StatusOK,
                   [NoOut EXCEPT !.Key = document.ID,
                                 !.Version = IF ver # "" THEN document.Version ELSE 0,
                                 !.Data = document.Content,
                                 !.Language = IF render
                                              THEN RenderLanguage(document.Language)
                                              ELSE ""])

\* routes.go only: GET /documents/{documentID}/versions/{version}
GetDocumentVersion(id, ver, hdr, fail) ==
    LET p == parseDocumentVersion(id, ver)
        r == DB_GetDocumentVersion(documents, p.documentID, p.version)
        document == CHOOSE d \in r.found : TRUE
        Answer(status, out) ==
            Reply("GetDocumentVersion", id, ver, hdr, NoReq, status, out)
    IN
    /\ resp = NoResp
    /\ revision = "routes.go"
    /\ ver # ""
    /\ UNCHANGED <<revision, cfg, now, documents, tokens>>
    /\ IF p.documentID = "" THEN Answer(StatusNotFound, NoOut)
       ELSE IF fail THEN Answer(StatusInternalServerError, NoOut)
       ELSE IF r.err # "" THEN Answer(ErrStatus(r.err), NoOut)
       ELSE Answer(StatusOK,
                   [NoOut EXCEPT !.Key = document.ID, !.Version = document.Version,
                                 !.Data = document.Content,
                                 !.Language = document.Language])

\* GET /documents/{documentID}/versions
DocumentVersions(id, hdr, withContent, fail) ==
    LET versions == DB_GetDocumentVersions(documents, id, withContent)
        Answer(status, out) ==
            Reply("DocumentVersions", id, "", hdr,
                  [NoReq EXCEPT !.option = withContent], status, out)
    IN
    /\ resp = NoResp
    /\ UNCHANGED <<revision, cfg, now, documents, tokens>>
    /\ IF fail THEN Answer(StatusInternalServerError, NoOut)
       ELSE IF Len(versions) = 0 THEN Answer(StatusNotFound, NoOut)
       ELSE Answer(StatusOK, [NoOut EXCEPT !.List = versions])

---------------------------------------------------------------------------
(* A request through the middleware of Routes and on to its handler *)

\* a router that asks the handler's permission gate before the limiter:
\* a request the gate denies goes to its handler uncounted
ServeGateFirst(ip, op, id, ver, hdr, Handler) ==
    LET method == Method(op)
        path == Path(op, id, ver)
        key == LimitKey(ip, path)
        denied ==
            \/ op = "PatchDocument" /\ Unauthorized(GetClaims(hdr), id, PermissionWrite)
            \/ op = "DeleteDocument" /\ Unauthorized(GetClaims(hdr), id, PermissionDelete)
        limited == RateLimitEnabled /\ IsLimitedMethod(method) /\ ~denied
        bucket == CurrentBucket(key)
    IN
    /\ resp = NoResp
    /\ Routed(op, ver)
    /\ pending' = pending
    /\ peer' = [ip |-> ip, method |-> method, path |-> path,
                found |-> IF limited /\ key \in DOMAIN buckets
                          THEN buckets[key] ELSE NoBucket]
    /\ IF ~limited
       THEN Handler /\ buckets' = buckets
       ELSE IF bucket.count >= cfg.RateLimit.Requests
       THEN /\ Reply(op, id, ver, hdr, NoReq, StatusTooManyRequests, NoOut)
            /\ UNCHANGED <<revision, cfg, documents, tokens, now, buckets>>
       ELSE /\ Handler
            /\ buckets' = [k \in DOMAIN buckets \cup {key} |->
                              IF k = key
                              THEN [bucket EXCEPT !.count = bucket.count + 1]
                              ELSE buckets[k]]

\* the request of op on (id, ver) from ip; Handler is the handler's action
Serve(ip, op, id, ver, hdr, Handler) ==
    LET method == Method(op)
        path == Path(op, id, ver)
        key == LimitKey(ip, path)
        limited == RateLimitEnabled /\ IsLimitedMethod(method)
        bucket == CurrentBucket(key)
    IN
    /\ resp = NoResp
    /\ Routed(op, ver)
    /\ pending' = pending
    /\ peer' = [ip |-> ip, method |-> method, path |-> path,
                found |-> IF limited /\ key \in DOMAIN buckets
                          THEN buckets[key] ELSE NoBucket]
    /\ IF ~limited
       THEN Handler /\ buckets' = buckets
       ELSE IF bucket.count >= cfg.RateLimit.Requests
       THEN \* s.rateLimit
            /\ Reply(op, id, ver, hdr, NoReq, StatusTooManyRequests, NoOut)
            /\ UNCHANGED <<revision, cfg, documents, tokens, now, buckets>>
       ELSE /\ Handler
            /\ buckets' = [k \in DOMAIN buckets \cup {key} |->
                              IF k = key
                              THEN [bucket EXCEPT !.count = bucket.count + 1]
                              ELSE buckets[k]]

---------------------------------------------------------------------------
(* Spec: every handler, with every issued token and with no token, on      *)
(* documents of one text, the size limit unset and a database whose        *)
(* statements succeed.                                                     *)

ShortBodies == {"", Runes(1)}

Next ==
    \/ Tick
    \/ Return
    \/ \E id \in DocumentIDs, content \in ShortBodies, language \in LanguageHeaders :
          Serve(ClientNames[1], "PostDocument", "", "", <<>>,
                PostDocument(id, content, language, FALSE, FALSE, FALSE))
    \/ \E id \in DocumentIDs, hdr \in Headers, content \in ShortBodies,
          language \in LanguageHeaders :
          Serve(ClientNames[1], "PatchDocument", id, "", hdr,
                PatchDocument(id, hdr, content, language, FALSE, FALSE, FALSE))
    \/ \E id \in DocumentIDs, ver \in VersionParams, hdr \in Headers :
          Serve(ClientNames[1], "DeleteDocument", id, ver, hdr,
                DeleteDocument(id, ver, hdr, FALSE, FALSE))
    \/ \E id \in DocumentIDs, ver \in VersionParams, hdr \in Headers :
          Serve(ClientNames[1], "DeleteDocumentVersion", id, ver, hdr,
                DeleteDocumentVersion(id, ver, hdr, FALSE, FALSE))
    \/ \E id \in DocumentIDs, hdr \in Headers, shareRequest \in ShareRequests :
          Serve(ClientNames[1], "PostDocumentShare", id, "", hdr,
                PostDocumentShare(id, hdr, shareRequest))
    \/ \E id \in DocumentIDs, ver \in VersionParams, hdr \in Headers,
          render \in BOOLEAN :
          Serve(ClientNames[1], "GetDocument", id, ver, hdr,
                GetDocument(id, ver, hdr, render, FALSE))
    \/ \E id \in DocumentIDs, ver \in VersionParams, hdr \in Headers :
          Serve(ClientNames[1], "GetDocumentVersion", id, ver, hdr,
                GetDocumentVersion(id, ver, hdr, FALSE))
    \/ \E id \in DocumentIDs, hdr \in Headers, withContent \in BOOLEAN :
          Serve(ClientNames[1], "DocumentVersions", id, "", hdr,
                DocumentVersions(id, hdr, withContent, FALSE))

Spec == Init /\ [][Next]_vars

---------------------------------------------------------------------------
(* SpecStore: the handlers of the document store, with the tokens the      *)
(* creates returned and with no token, texts of every length, either size  *)
(* limit, cancelled requests and a database whose statements may fail.     *)
(* Token delegation (the share handler) is left to Spec.                   *)

InitStore ==
    /\ revision \in Revisions
    /\ cfg \in [MaxDocumentSize : {0, MaxContentLen - 1}, RateLimit : {NoRateLimit}]
    /\ documents = {}
    /\ tokens = {}
    /\ now = 1
    /\ resp = NoResp
    /\ buckets = NoBuckets
    /\ peer = NoPeer
    /\ pending = {}

NextStore ==
    \/ Tick
    \/ Return
    \/ \E id \in DocumentIDs, content \in Bodies, language \in LanguageHeaders,
          done \in BOOLEAN, fail \in BOOLEAN, failAfter \in BOOLEAN :
          Serve(ClientNames[1], "PostDocument", "", "", <<>>,
                PostDocument(id, content, language, done, fail, failAfter))
    \/ \E id \in DocumentIDs, hdr \in Headers, content \in Bodies,
          language \in LanguageHeaders, done \in BOOLEAN, fail \in BOOLEAN,
          failAfter \in BOOLEAN :
          Serve(ClientNames[1], "PatchDocument", id, "", hdr,
                PatchDocument(id, hdr, content, language, done, fail, failAfter))
    \/ \E id \in DocumentIDs, ver \in VersionParams, hdr \in Headers,
          fail \in BOOLEAN, failCount \in BOOLEAN :
          Serve(ClientNames[1], "DeleteDocument", id, ver, hdr,
                DeleteDocument(id, ver, hdr, fail, failCount))
    \/ \E id \in DocumentIDs, ver \in VersionParams, hdr \in Headers,
          fail \in BOOLEAN, failCount \in BOOLEAN :
          Serve(ClientNames[1], "DeleteDocumentVersion", id, ver, hdr,
                DeleteDocumentVersion(id, ver, hdr, fail, failCount))
    \/ \E id \in DocumentIDs, ver \in VersionParams, hdr \in Headers,
          render \in BOOLEAN, fail \in BOOLEAN :
          Serve(ClientNames[1], "GetDocument", id, ver, hdr,
                GetDocument(id, ver, hdr, render, fail))
    \/ \E id \in DocumentIDs, ver \in VersionParams, hdr \in Headers, fail \in BOOLEAN :
          Serve(ClientNames[1], "GetDocumentVersion", id, ver, hdr,
                GetDocumentVersion(id, ver, hdr, fail))
    \/ \E id \in DocumentIDs, hdr \in Headers, withContent \in BOOLEAN,
          fail \in BOOLEAN :
          Serve(ClientNames[1], "DocumentVersions", id, "", hdr,
                DocumentVersions(id, hdr, withContent, fail))

SpecStore == InitStore /\ [][NextStore]_vars

---------------------------------------------------------------------------
(* SpecLanguage: creates and updates that name a language in the Language  *)
(* header, and the reads of what they stored; the size limit unset and a   *)
(* database whose statements succeed.                                      *)

LanguagesNamed == {LanguageNames[i] : i \in 1..(MaxLanguages + 1)}

NextLanguage ==
    \/ Tick
    \/ Return
    \/ \E id \in DocumentIDs, content \in ShortBodies, language \in LanguagesNamed :
          Serve(ClientNames[1], "PostDocument", "", "", <<>>,
                PostDocument(id, content, language, FALSE, FALSE, FALSE))
    \/ \E id \in DocumentIDs, hdr \in Headers, content \in ShortBodies,
          language \in LanguagesNamed :
          Serve(ClientNames[1], "PatchDocument", id, "", hdr,
                PatchDocument(id, hdr, content, language, FALSE, FALSE, FALSE))
    \/ \E id \in DocumentIDs, ver \in VersionParams, hdr \in Headers,
          render \in BOOLEAN :
          Serve(ClientNames[1], "GetDocument", id, ver, hdr,
                GetDocument(id, ver, hdr, render, FALSE))

SpecLanguage == Init /\ [][NextLanguage]_vars

---------------------------------------------------------------------------
(* SpecLimit: a server configured with a rate limit of LimitRequests       *)
(* requests per window of LimitWindow seconds, asked by several clients    *)
(* to create, update, delete and read; a database whose statements         *)
(* succeed.                                                                *)

InitLimit ==
    /\ revision \in Revisions
    /\ cfg = [MaxDocumentSize |-> 0,
              RateLimit |-> [Requests |-> LimitRequests, Duration |-> LimitWindow]]
    /\ documents = {}
    /\ tokens = {}
    /\ now = 1
    /\ resp = NoResp
    /\ buckets = NoBuckets
    /\ peer = NoPeer
    /\ pending = {}

\* who asks for what: the first client knows every document, the others the first
LimitRequesters ==
    {rq \in [ip : Clients, id : DocumentIDs] :
        rq.ip = ClientNames[1] \/ rq.id = DocumentNames[1]}

NextLimit ==
    \/ Tick
    \/ Return
    \/ \E rq \in LimitRequesters, language \in LanguageHeaders :
          Serve(rq.ip, "PostDocument", "", "", <<>>,
                PostDocument(rq.id, Runes(1), language, FALSE, FALSE, FALSE))
    \/ \E rq \in LimitRequesters, hdr \in Headers,
          language \in LanguageHeaders :
          Serve(rq.ip, "PatchDocument", rq.id, "", hdr,
                PatchDocument(rq.id, hdr, Runes(1), language, FALSE, FALSE, FALSE))
    \/ \E rq \in LimitRequesters, hdr \in Headers :
          Serve(rq.ip, "DeleteDocument", rq.id, "", hdr,
                DeleteDocument(rq.id, "", hdr, FALSE, FALSE))
    \/ \E rq \in LimitRequesters, hdr \in Headers :
          Serve(rq.ip, "GetDocument", rq.id, "", hdr,
                GetDocument(rq.id, "", hdr, FALSE, FALSE))

SpecLimit == InitLimit /\ [][NextLimit]_vars

---------------------------------------------------------------------------
(* SpecUnlimited: the requests of SpecLimit to a server whose rate limit   *)
(* is not configured, or is configured with no requests or with no window. *)

UnlimitedConfigs ==
    {NoRateLimit,
     [Requests |-> 0, Duration |-> LimitWindow],
     [Requests |-> LimitRequests, Duration |-> 0]}

InitUnlimited ==
    /\ revision \in Revisions
    /\ cfg \in [MaxDocumentSize : {0}, RateLimit : UnlimitedConfigs]
    /\ documents = {}
    /\ tokens = {}
    /\ now = 1
    /\ resp = NoResp
    /\ buckets = NoBuckets
    /\ peer = NoPeer
    /\ pending = {}

SpecUnlimited == InitUnlimited /\ [][NextLimit]_vars

---------------------------------------------------------------------------
(* SpecLimitRoutes: the same rate limit in front of every documents route, *)
(* asked by one client about one document, with the tokens issued and with *)
(* no token; a database whose statements succeed.                          *)

\* the {version} segments asked for: none, or the first second
LimitVersionParams == {"", ToString(1)}

\* share requests for the write permission, for delete, or for none
LimitShareRequests ==
    {sr \in ShareRequests :
        sr.json /\ sr.Permissions \in {{}, {PermissionWrite}, {PermissionDelete}}}

NextLimitRoutes ==
    \/ Tick
    \/ Return
    \/ \E language \in LanguageHeaders :
          Serve(ClientNames[1], "PostDocument", "", "", <<>>,
                PostDocument(DocumentNames[1], Runes(1), language, FALSE, FALSE, FALSE))
    \/ \E hdr \in Headers, language \in LanguageHeaders :
          Serve(ClientNames[1], "PatchDocument", DocumentNames[1], "", hdr,
                PatchDocument(DocumentNames[1], hdr, Runes(1), language, FALSE, FALSE, FALSE))
    \/ \E ver \in LimitVersionParams, hdr \in Headers :
          Serve(ClientNames[1], "DeleteDocument", DocumentNames[1], ver, hdr,
                DeleteDocument(DocumentNames[1], ver, hdr, FALSE, FALSE))
    \/ \E ver \in LimitVersionParams, hdr \in Headers :
          Serve(ClientNames[1], "DeleteDocumentVersion", DocumentNames[1], ver, hdr,
                DeleteDocumentVersion(DocumentNames[1], ver, hdr, FALSE, FALSE))
    \/ \E hdr \in Headers, shareRequest \in LimitShareRequests :
          Serve(ClientNames[1], "PostDocumentShare", DocumentNames[1], "", hdr,
                PostDocumentShare(DocumentNames[1], hdr, shareRequest))
    \/ \E ver \in LimitVersionParams, hdr \in Headers :
          Serve(ClientNames[1], "GetDocument", DocumentNames[1], ver, hdr,
                GetDocument(DocumentNames[1], ver, hdr, FALSE, FALSE))
    \/ \E hdr \in Headers :
          Serve(ClientNames[1], "DocumentVersions", DocumentNames[1], "", hdr,
                DocumentVersions(DocumentNames[1], hdr, FALSE, FALSE))

SpecLimitRoutes == InitLimit /\ [][NextLimitRoutes]_vars

---------------------------------------------------------------------------
(* SpecRace: updates and delete-alls of one document served at the same    *)
(* time. Each handler runs in two steps: its gate and its reading of the   *)
(* body, which touch no shared state, and its one call of the database,    *)
(* after which it answers. Steps of different requests interleave freely;  *)
(* the database serves one call at a time. `pending` holds the requests    *)
(* between their two steps (status 0) and those answered.                  *)

MaxPending == 2

\* PatchDocument up to its call of s.db.UpdateDocument
BeginPatchDocument(id, hdr, content) ==
    /\ resp = NoResp
    /\ Cardinality(pending) < MaxPending
    /\ ~Unauthorized(GetClaims(hdr), id, PermissionWrite)
    /\ content # ""
    /\ ~exceedsMaxDocumentSize(content)
    /\ pending' = pending \cup {[op |-> "PatchDocument", id |-> id,
                                  content |-> content, at |-> now, status |-> 0]}
    /\ UNCHANGED <<revision, cfg, documents, tokens, now, resp, buckets, peer>>

\* DeleteDocument without a version, up to its call of s.db.DeleteDocument
BeginDeleteDocument(id, hdr) ==
    /\ resp = NoResp
    /\ Cardinality(pending) < MaxPending
    /\ ~Unauthorized(GetClaims(hdr), id, PermissionDelete)
    /\ pending' = pending \cup {[op |-> "DeleteDocument", id |-> id,
                                  content |-> "", at |-> now, status |-> 0]}
    /\ UNCHANGED <<revision, cfg, documents, tokens, now, resp, buckets, peer>>

\* PatchDocument from s.db.UpdateDocument to its answer
StoreUpdateDocument(p) ==
    LET r == DB_UpdateDocument(documents, p.id, p.content,
                               StoredLanguage("", p.content))
        status == IF r.err # "" THEN ErrStatus(r.err) ELSE StatusOK
    IN
    /\ p.op = "PatchDocument"
    /\ p.status = 0
    /\ documents' = r.docs
    /\ pending' = (pending \ {p}) \cup {[p EXCEPT !.status = status]}
    /\ UNCHANGED <<revision, cfg, tokens, now, resp, buckets, peer>>

\* DeleteDocument from s.db.DeleteDocument to its answer
StoreDeleteDocument(p) ==
    LET r == DB_DeleteDocument(documents, p.id)
        status == IF r.err # "" THEN ErrStatus(r.err) ELSE StatusNoContent
    IN
    /\ p.op = "DeleteDocument"
    /\ p.status = 0
    /\ documents' = r.docs
    /\ pending' = (pending \ {p}) \cup {[p EXCEPT !.status = status]}
    /\ UNCHANGED <<revision, cfg, tokens, now, resp, buckets, peer>>

\* the handlers served together have all returned
Finish ==
    /\ pending # {}
    /\ \A p \in pending : p.status # 0
    /\ pending' = {}
    /\ UNCHANGED <<revision, cfg, documents, tokens, now, resp, buckets, peer>>

NextRace ==
    \/ Tick
    \/ Return
    \/ \E id \in DocumentIDs :
          Serve(ClientNames[1], "PostDocument", "", "", <<>>,
                PostDocument(id, Runes(1), "", FALSE, FALSE, FALSE))
    \/ \E id \in DocumentIDs, hdr \in Headers, content \in Bodies :
          BeginPatchDocument(id, hdr, content)
    \/ \E id \in DocumentIDs, hdr \in Headers : BeginDeleteDocument(id, hdr)
    \/ \E p \in pending : StoreUpdateDocument(p)
    \/ \E p \in pending : StoreDeleteDocument(p)
    \/ Finish

SpecRace == Init /\ [][NextRace]_vars

---------------------------------------------------------------------------
(* Vocabulary of the properties *)

\* the request just served, read from the response record r
IsUpdate(r) == r.op = "PatchDocument"
IsDeleteAll(r) == r.op = "DeleteDocument" /\ r.ver = ""
IsDeleteVersion(r) ==
    \/ r.op = "DeleteDocumentVersion"
    \/ r.op = "DeleteDocument" /\ r.ver # ""
IsShare(r) == r.op = "PostDocumentShare"

\* the request's claims are for its own document and hold permission p
Holds(r, p) == r.claims.Subject = r.id /\ p \in r.claims.Permissions

\* a share request whose body is a non-empty list of known permissions
WellFormedShare(r) ==
    /\ IsShare(r)
    /\ r.req.json
    /\ r.req.Permissions # {}
    /\ r.req.Permissions \subseteq Permissions

\* the {version} segment of r names a version that document r.id has
NamesStoredVersion(r, docs) ==
    /\ ~ParseInt(r.ver).err
    /\ HasKey(docs, r.id, ParseInt(r.ver).val)

---------------------------------------------------------------------------
(* C1: an update or delete-all request on document id changes the store    *)
(* only when its claims have subject id and hold write resp. delete; every *)
(* other such request is answered NotFound and leaves the rows as they     *)
(* were.                                                                   *)
C1_Step ==
    /\ IsUpdate(resp') /\ ~Holds(resp', PermissionWrite)
         => resp'.status = StatusNotFound /\ documents' = documents
    /\ IsDeleteAll(resp') /\ ~Holds(resp', PermissionDelete)
         => resp'.status = StatusNotFound /\ documents' = documents

C1_GatedUpdateAndDeleteAll == [][C1_Step]_vars

\* an update with a write token of another document, on a document that exists
C1_Witness ==
    /\ IsUpdate(resp)
    /\ resp.claims.Subject \in DocumentIDs \ {resp.id}
    /\ PermissionWrite \in resp.claims.Permissions
    /\ Rows(documents, resp.id) # {}
    /\ resp.status = StatusNotFound

(* C2: a delete-version request removes a row only when its claims have    *)
(* subject id and hold delete.                                             *)
C2_Step ==
    IsDeleteVersion(resp') /\ documents' # documents
        => Holds(resp', PermissionDelete)

C2_DeleteVersionGated == [][C2_Step]_vars

(* C3: share answers with a token only to claims with subject id that hold *)
(* share and every requested permission; the token is for id with exactly  *)
(* the requested permissions; a holder of share who asks for a permission  *)
(* it lacks is answered Forbidden and no token is issued.                  *)
C3_Step ==
    IsShare(resp') =>
        /\ resp'.status = StatusOK =>
              /\ Holds(resp', PermissionShare)
              /\ resp'.req.Permissions \subseteq resp'.claims.Permissions
              /\ resp'.out.Token =
                    <<[Subject |-> resp'.id, Permissions |-> resp'.req.Permissions]>>
              /\ tokens' = tokens \cup {resp'.out.Token[1]}
        /\ resp'.status # StatusOK =>
              resp'.out.Token = <<>> /\ tokens' = tokens
        /\ ( /\ WellFormedShare(resp')
             /\ Holds(resp', PermissionShare)
             /\ ~(resp'.req.Permissions \subseteq resp'.claims.Permissions) )
              => resp'.status = StatusForbidden

C3_ShareDelegatesOwnPermissions == [][C3_Step]_vars

\* a shared token with fewer permissions than the token that asked for it
C3_Witness ==
    /\ IsShare(resp)
    /\ resp.status = StatusOK
    /\ resp.req.Permissions # resp.claims.Permissions
    /\ resp.out.Token[1] \in tokens

\* a token with exactly {write} asks share for {delete} on its own document
WriteOnlyAsksDelete(r) ==
    /\ IsShare(r)
    /\ r.claims = [Subject |-> r.id, Permissions |-> {PermissionWrite}]
    /\ r.req.json
    /\ r.req.Permissions = {PermissionDelete}

(* C4 as written: a token with exactly {write} that asks share for         *)
(* {delete} on its own document is answered Forbidden.                     *)
C4_WriteOnlyShareForbidden ==
    WriteOnlyAsksDelete(resp) => resp.status = StatusForbidden

(* C4: a token with exactly {write} that asks share for {delete} on its    *)
(* own document is answered NotFound, as it lacks share; a token with      *)
(* exactly {write, share} that asks the same is answered Forbidden.        *)
C4_WriteOnlyShareNotFound ==
    /\ WriteOnlyAsksDelete(resp) => resp.status = StatusNotFound
    /\ ( /\ IsShare(resp)
         /\ resp.claims = [Subject |-> resp.id,
                           Permissions |-> {PermissionWrite, PermissionShare}]
         /\ resp.req.json
         /\ resp.req.Permissions = {PermissionDelete} )
          => resp.status = StatusForbidden

C4_Witness == WriteOnlyAsksDelete(resp) /\ resp.status = StatusNotFound

(* C5 as written: a share request whose claims lack subject id or share is *)
(* answered NotFound whatever its body.                                    *)
C5_UngatedShareAlwaysNotFound ==
    IsShare(resp) /\ ~Holds(resp, PermissionShare)
        => resp.status = StatusNotFound

(* C5: a share request whose claims lack subject id or share is answered   *)
(* NotFound for every well-formed body, and Invalid, whoever asks, when    *)
(* the body does not decode, is empty or names an unknown permission;      *)
(* Forbidden is answered only to claims with subject id that hold share.   *)
C5_UngatedShareNotFound ==
    IsShare(resp) =>
        /\ ~WellFormedShare(resp) => resp.status = StatusBadRequest
        /\ WellFormedShare(resp) /\ ~Holds(resp, PermissionShare)
              => resp.status = StatusNotFound
        /\ resp.status = StatusForbidden => Holds(resp, PermissionShare)

\* a token without share, for the very document, asks with a well-formed body
C5_Witness ==
    /\ WellFormedShare(resp)
    /\ resp.claims.Subject = resp.id
    /\ PermissionShare \notin resp.claims.Permissions
    /\ resp.status = StatusNotFound

(* C6: a successful create answers with a token whose subject is the new   *)
(* document and whose permissions are exactly {write, delete, share}; with *)
(* that token update, delete-all and share pass the gate on that document  *)
(* (NotFound then only when the document has no rows) and are answered     *)
(* NotFound, changing nothing, on any other document.                      *)
CreatorToken(id) == [Subject |-> id, Permissions |-> Permissions]

C6_Step ==
    /\ resp'.op = "PostDocument" /\ resp'.status = StatusOK =>
          /\ resp'.out.Key \notin {d.ID : d \in documents}
          /\ resp'.out.Token = <<CreatorToken(resp'.out.Key)>>
          /\ tokens' = tokens \cup {CreatorToken(resp'.out.Key)}
          /\ HasKey(documents', resp'.out.Key, resp'.out.Version)
    /\ \A id \in DocumentIDs :
          ( /\ resp'.claims = CreatorToken(id)
            /\ IsUpdate(resp') \/ IsDeleteAll(resp') \/ WellFormedShare(resp') ) =>
              IF resp'.id = id
              THEN /\ resp'.status = StatusNotFound => Rows(documents, id) = {}
                   /\ resp'.status # StatusForbidden
                   /\ IsShare(resp') => resp'.status = StatusOK
              ELSE /\ resp'.status = StatusNotFound
                   /\ documents' = documents
                   /\ tokens' = tokens

C6_CreateReturnsOwnerToken == [][C6_Step]_vars

\* a second document has just been created next to an existing one
C6_Witness ==
    /\ resp.op = "PostDocument"
    /\ resp.status = StatusOK
    /\ resp.out.Token = <<CreatorToken(resp.out.Key)>>
    /\ \E d \in documents : d.ID # resp.out.Key

(* C7: with a token T2 of exactly {write} shared from the create token,    *)
(* delete-all and delete-version of a version the document has are         *)
(* answered NotFound and leave every row in place.                         *)
C7_Step ==
    ( /\ resp'.claims = [Subject |-> resp'.id, Permissions |-> {PermissionWrite}]
      /\ \/ IsDeleteAll(resp')
         \/ IsDeleteVersion(resp') /\ NamesStoredVersion(resp', documents) )
        => resp'.status = StatusNotFound /\ documents' = documents

C7_SharedWriteTokenCannotDelete == [][C7_Step]_vars

(* C8: an update, delete-all, delete-version (of a version number >= 1) or *)
(* well-formed share request without a token is answered NotFound and      *)
(* changes nothing, whether or not the document exists.                    *)
C8_Step ==
    ( /\ resp'.claims = EmptyClaims
      /\ \/ IsUpdate(resp')
         \/ IsDeleteAll(resp')
         \/ IsDeleteVersion(resp') /\ ~ParseInt(resp'.ver).err
                                   /\ ParseInt(resp'.ver).val >= 1
         \/ WellFormedShare(resp') )
        => /\ resp'.status = StatusNotFound
           /\ documents' = documents
           /\ tokens' = tokens

C8_NoTokenDenied == [][C8_Step]_vars

\* read requests: the latest version, a version numbered >= 1, the listing
IsGetLatest(r) == r.op = "GetDocument" /\ r.ver = ""
IsGetVersion(r) ==
    /\ r.op = "GetDocumentVersion" \/ (r.op = "GetDocument" /\ r.ver # "")
    /\ ~ParseInt(r.ver).err
    /\ ParseInt(r.ver).val >= 1
IsListVersions(r) == r.op = "DocumentVersions"

\* the body that presents row d to read request r, whoever asks
Presented(r, d) ==
    IF revision = "routes.go"
    THEN [NoOut EXCEPT !.Key = d.ID, !.Version = d.Version, !.Data = d.Content,
                       !.Language = d.Language]
    ELSE [NoOut EXCEPT !.Key = d.ID,
                       !.Version = IF r.ver # "" THEN d.Version ELSE 0,
                       !.Data = d.Content,
                       !.Language = IF r.req.option THEN RenderLanguage(d.Language)
                                    ELSE ""]

(* C9: get_latest, get_version and list_versions on a document that has    *)
(* the rows asked for answer 200 with a body that the stored rows and the  *)
(* request's path and query fix, whatever claims the request carries: no   *)
(* token, a token for another document, a token with any permissions.      *)
C9_ReadsUngated ==
    /\ IsGetLatest(resp) /\ Rows(documents, resp.id) # {} =>
          /\ resp.status = StatusOK
          /\ resp.out = Presented(resp, Latest(documents, resp.id))
    /\ IsGetVersion(resp) /\ NamesStoredVersion(resp, documents) =>
          /\ resp.status = StatusOK
          /\ \E d \in Rows(documents, resp.id) :
                /\ d.Version = ParseInt(resp.ver).val
                /\ resp.out = Presented(resp, d)
    /\ IsListVersions(resp) /\ Rows(documents, resp.id) # {} =>
          /\ resp.status = StatusOK
          /\ resp.out = [NoOut EXCEPT !.List =
                DB_GetDocumentVersions(documents, resp.id, resp.req.option)]

\* a version read with a token of another document that lacks a permission
C9_Witness ==
    /\ IsGetVersion(resp)
    /\ resp.status = StatusOK
    /\ resp.claims.Subject \in DocumentIDs \ {resp.id}
    /\ resp.claims.Permissions # Permissions

(* C10: a successful create or update adds exactly one row, under a key    *)
(* (id, version) the table did not hold; no step changes the content or    *)
(* the language of a row that stays; a row disappears only in a step of    *)
(* delete-all or delete-version.                                           *)
C10_Step ==
    /\ ( /\ resp'.op \in {"PostDocument", "PatchDocument"}
         /\ resp'.status = StatusOK ) =>
          \E row \in documents' :
              /\ row.ID = resp'.out.Key
              /\ row.Version = resp'.out.Version
              /\ row.Content = resp'.req.Content
              /\ ~HasKey(documents, row.ID, row.Version)
              /\ documents' = documents \cup {row}
    /\ \A d \in documents, e \in documents' :
          d.ID = e.ID /\ d.Version = e.Version => e = d
    /\ ~(documents \subseteq documents') =>
          IsDeleteAll(resp') \/ IsDeleteVersion(resp')

C10_AppendOnly == [][C10_Step]_vars

\* an update has put a second version with another text next to the first
C10_Witness ==
    /\ IsUpdate(resp)
    /\ resp.status = StatusOK
    /\ \E d, e \in Rows(documents, resp.id) :
          d.Version < e.Version /\ d.Content # e.Content

---------------------------------------------------------------------------
\* the listing of document id, as list_versions returns it
Listing(docs, id) == DB_GetDocumentVersions(docs, id, FALSE)

(* C11: every update of a document that has rows, sent with a write token  *)
(* for it and a non-empty text, whatever the clock second it falls in,     *)
(* makes the listing one entry longer, and the listing stays in            *)
(* non-decreasing version order: N updates after the create list N + 1.    *)
C11_Step ==
    ( /\ IsUpdate(resp')
      /\ Holds(resp', PermissionWrite)
      /\ resp'.req.Content # ""
      /\ Rows(documents, resp'.id) # {} )
        => LET before == Listing(documents, resp'.id)
               after == Listing(documents', resp'.id)
           IN /\ Len(after) = Len(before) + 1
              /\ \A i \in 1..(Len(after) - 1) :
                    after[i].Version <= after[i + 1].Version

C11_UpdatesListed == [][C11_Step]_vars

(* C12: the table never holds two rows with the same (id, version); an     *)
(* update whose row would take a key the table already holds adds no row   *)
(* and is not answered OK: it is answered 500 when the request itself was  *)
(* in order (authorized, a text within the size limit, not cancelled).     *)
C12_Step ==
    /\ \A d, e \in documents' :
          d.ID = e.ID /\ d.Version = e.Version => d = e
    /\ ( IsUpdate(resp') /\ HasKey(documents, resp'.id, now) ) =>
          /\ documents' = documents
          /\ resp'.status # StatusOK
          /\ ( /\ Holds(resp', PermissionWrite)
               /\ resp'.req.Content # ""
               /\ ~exceedsMaxDocumentSize(resp'.req.Content)
               /\ resp'.status # StatusGatewayTimeout )
                => resp'.status = StatusInternalServerError

C12_UniqueKey == [][C12_Step]_vars

\* an update with another text was refused in the second of the stored row
C12_Witness ==
    /\ IsUpdate(resp)
    /\ Holds(resp, PermissionWrite)
    /\ resp.status = StatusInternalServerError
    /\ \E d \in Rows(documents, resp.id) :
          d.Version = now /\ d.Content # resp.req.Content /\ resp.req.Content # ""

\* the row a successful create has just stored
Created(docs, r) ==
    CHOOSE d \in docs : d.ID = r.out.Key /\ d.Version = r.out.Version

(* C13 as written: a successful create stores the text and the language it *)
(* was given, and get_latest answers with the text and the language of the *)
(* latest row: read right after the create, both are the values supplied.  *)
C13_StepIdentical ==
    /\ resp'.op = "PostDocument" /\ resp'.status = StatusOK =>
          /\ Created(documents', resp').Content = resp'.req.Content
          /\ Created(documents', resp').Language = resp'.req.Language
    /\ IsGetLatest(resp') /\ resp'.status = StatusOK =>
          /\ resp'.out.Data = Latest(documents, resp'.id).Content
          /\ resp'.out.Language = Latest(documents, resp'.id).Language

C13_Step ==
    /\ resp'.op = "PostDocument" /\ resp'.status = StatusOK =>
          /\ Created(documents', resp').Content = resp'.req.Content
          /\ Created(documents', resp').Language =
                IF revision = "routes.go" THEN resp'.req.Language
                ELSE LexerName(resp'.req.Language, resp'.req.Content)
    /\ IsGetLatest(resp') /\ resp'.status = StatusOK =>
          /\ resp'.out.Key = resp'.id
          /\ resp'.out.Data = Latest(documents, resp'.id).Content
          /\ resp'.out.Language =
                IF revision = "routes.go" THEN Latest(documents, resp'.id).Language
                ELSE IF resp'.req.option
                THEN RenderLanguage(Latest(documents, resp'.id).Language)
                ELSE ""

C14_GetLatestIsMaximum ==
    IsGetLatest(resp) =>
        /\ resp.status \in {StatusOK, StatusNotFound, StatusInternalServerError}
        /\ resp.status = StatusNotFound => Rows(documents, resp.id) = {}
        /\ resp.status = StatusOK =>
              \E d \in Rows(documents, resp.id) :
                  /\ \A e \in Rows(documents, resp.id) : e.Version <= d.Version
                  /\ resp.out.Key = d.ID
                  /\ resp.out.Data = d.Content
        /\ resp.status = StatusInternalServerError => resp.out = NoOut

\* the document has an older row with another text, and the newer is answered
C14_Witness ==
    /\ IsGetLatest(resp)
    /\ resp.status = StatusOK
    /\ \E d, e \in Rows(documents, resp.id) :
          /\ d.Version < e.Version
          /\ d.Content # e.Content
          /\ resp.out.Data = e.Content

(* C15: a delete-version request with a delete token for id that names the *)
(* integer v removes no row but (id, v) and changes no row; when v is not  *)
(* the latest version of id, the latest row of id is the same afterwards.  *)
C15_Step ==
    ( /\ IsDeleteVersion(resp')
      /\ Holds(resp', PermissionDelete)
      /\ ~ParseInt(resp'.ver).err )
        => LET v == ParseInt(resp'.ver).val
               id == resp'.id
           IN /\ documents' \subseteq documents
              /\ \A d \in documents \ documents' : d.ID = id /\ d.Version = v
              /\ ( /\ Rows(documents, id) # {}
                   /\ Latest(documents, id).Version # v )
                    => /\ Rows(documents', id) # {}
                       /\ Latest(documents', id) = Latest(documents, id)

C15_DeleteVersionExact == [][C15_Step]_vars

\* a get_version request that names an integer, whichever
NamesInteger(r) ==
    /\ r.op = "GetDocumentVersion" \/ (r.op = "GetDocument" /\ r.ver # "")
    /\ ~ParseInt(r.ver).err

\* document id was created and all its rows have been deleted
FullyDeleted(docs, id) ==
    /\ \E t \in tokens : t.Subject = id
    /\ Rows(docs, id) = {}

(* C16: a successful delete_all leaves no row of id (count_versions is 0); *)
(* from then on id has no rows, and every get_latest and every get_version *)
(* of id, whatever the version, is answered NotFound; a delete_all with a  *)
(* delete token on an id without rows is answered NotFound.                *)
C16_Step ==
    /\ IsDeleteAll(resp') /\ resp'.status = StatusNoContent =>
          DB_GetVersionCount(documents', resp'.id) = 0
    /\ \A id \in DocumentIDs :
          FullyDeleted(documents, id) => Rows(documents', id) = {}
    /\ ( /\ IsGetLatest(resp') \/ NamesInteger(resp')
         /\ FullyDeleted(documents, resp'.id) )
          => resp'.status = StatusNotFound
    /\ ( /\ IsDeleteAll(resp')
         /\ Holds(resp', PermissionDelete)
         /\ Rows(documents, resp'.id) = {} )
          => resp'.status = StatusNotFound /\ documents' = documents

C16_DeleteAllThenNotFound == [][C16_Step]_vars

(* C17: an update of an ID that has no rows adds no row, whatever token it *)
(* carries; sent with a text it is answered NotFound (an empty body is     *)
(* answered NotFound without a write token for the ID and Invalid with     *)
(* one), so an ID whose rows were all deleted stays without rows.          *)
C17_Step ==
    ( IsUpdate(resp') /\ Rows(documents, resp'.id) = {} ) =>
        /\ documents' = documents
        /\ resp'.req.Content # "" => resp'.status = StatusNotFound
        /\ resp'.req.Content = "" =>
              resp'.status = IF Holds(resp', PermissionWrite)
                             THEN StatusBadRequest ELSE StatusNotFound

C17_NoResurrection == [][C17_Step]_vars

\* an update with the owner's token and a text, after all rows were deleted
C17_Witness ==
    /\ IsUpdate(resp)
    /\ Holds(resp, PermissionWrite)
    /\ resp.req.Content # ""
    /\ FullyDeleted(documents, resp.id)
    /\ resp.status = StatusNotFound

(* C18: a delete-version that removes the version it names is answered OK  *)
(* with the number of rows the ID has left; when that number is 0 the ID   *)
(* has no rows, and get_latest and list_versions of an ID whose rows were  *)
(* all deleted are answered NotFound with no body, as for an unknown ID.   *)
C18_Step ==
    /\ ( /\ IsDeleteVersion(resp')
         /\ NamesStoredVersion(resp', documents)
         /\ Holds(resp', PermissionDelete) \/ documents' # documents )
          => /\ resp'.status = StatusOK
             /\ documents' = {d \in documents :
                    ~(d.ID = resp'.id /\ d.Version = ParseInt(resp'.ver).val)}
             /\ resp'.out.Versions = Cardinality(Rows(documents', resp'.id))
             /\ resp'.out.Versions = 0 => FullyDeleted(documents', resp'.id)
    /\ ( /\ IsGetLatest(resp') \/ IsListVersions(resp')
         /\ Rows(documents, resp'.id) = {} )
          => resp'.status = StatusNotFound /\ resp'.out = NoOut

C18_DeleteVersionReportsCount == [][C18_Step]_vars

\* the older of two versions was deleted and one is reported left
C18_Witness ==
    /\ IsDeleteVersion(resp)
    /\ resp.status = StatusOK
    /\ resp.out.Versions = 1
    /\ \E d \in Rows(documents, resp.id) : d.Version > ParseInt(resp.ver).val

---------------------------------------------------------------------------
\* a request of r.method that the limiter is asked about
IsLimitedRequest(r) == r.method \in {"POST", "PATCH", "DELETE"}

\* the requests of client ip the limiter has admitted in the current window,
\* over all paths
RECURSIVE AdmittedOn(_, _)
AdmittedOn(ip, keys) ==
    IF keys = {} THEN 0
    ELSE LET k == CHOOSE k \in keys : TRUE
         IN (IF k[1] = ip /\ buckets[k].start = WindowStart(now)
             THEN buckets[k].count ELSE 0) + AdmittedOn(ip, keys \ {k})

Admitted(ip) == AdmittedOn(ip, DOMAIN buckets)

\* the requests of client ip to path the limiter has admitted in the
\* current window
AdmittedIn(bks, ip, path) ==
    IF <<ip, path>> \in DOMAIN bks /\ bks[<<ip, path>>].start = WindowStart(now)
    THEN bks[<<ip, path>>].count ELSE 0

AdmittedTo(ip, path) == AdmittedIn(buckets, ip, path)

(* C19 as written: once LimitRequests mutating requests of a client have   *)
(* been admitted in the current window, the next mutating request of that  *)
(* client is answered RateLimited, whatever endpoint or document it is for.*)
C19_StepAnyEndpoint ==
    ( /\ peer = NoPeer
      /\ IsLimitedRequest(peer')
      /\ Admitted(peer'.ip) >= cfg.RateLimit.Requests )
        => resp'.status = StatusTooManyRequests

C19_Step ==
    peer = NoPeer /\ peer' # NoPeer =>
        IF IsLimitedRequest(peer')
        THEN /\ AdmittedTo(peer'.ip, peer'.path) >= cfg.RateLimit.Requests =>
                  /\ resp'.status = StatusTooManyRequests
                  /\ UNCHANGED <<documents, tokens, buckets>>
             /\ <<peer'.ip, peer'.path>> \notin DOMAIN buckets =>
                  resp'.status # StatusTooManyRequests
             /\ resp'.status # StatusTooManyRequests =>
                  AdmittedIn(buckets', peer'.ip, peer'.path) =
                      AdmittedTo(peer'.ip, peer'.path) + 1
        ELSE resp'.status # StatusTooManyRequests /\ buckets' = buckets

---------------------------------------------------------------------------
(* C21: a read (a GET request) is never answered RateLimited and leaves    *)
(* every bucket as it was, so the mutating requests a client may still     *)
(* make in the window are the same after any number of reads.              *)
C21_Step ==
    peer = NoPeer /\ peer'.method = "GET" =>
        /\ resp'.status # StatusTooManyRequests
        /\ buckets' = buckets

C21_ReadsBypassLimiter == [][C21_Step]_vars

\* a read of a document answered while the client's budget for the
\* document's path is used up in the current window
C21_Witness ==
    /\ resp.op = "GetDocument"
    /\ resp.status = StatusOK
    /\ AdmittedTo(peer.ip, peer.path) = cfg.RateLimit.Requests

---------------------------------------------------------------------------
\* the handlers of create, update, delete-all and delete-version
DocumentWrites ==
    {"PostDocument", "PatchDocument", "DeleteDocument", "DeleteDocumentVersion"}

(* C22 as written: a request to any endpoint other than create, update,    *)
(* delete and delete-version, share among them, is never answered          *)
(* RateLimited and changes no bucket.                                      *)
C22_StepOnlyDocumentWrites ==
    peer = NoPeer /\ peer' # NoPeer /\ resp'.op \notin DocumentWrites =>
        /\ resp'.status # StatusTooManyRequests
        /\ buckets' = buckets

C22_OnlyDocumentWritesLimited == [][C22_StepOnlyDocumentWrites]_vars

(* C22: the limiter is asked about create, update, delete, delete-version  *)
(* and share requests, and about no other: such a request is answered      *)
(* RateLimited when its bucket is full in the current window and is        *)
(* counted in its bucket when it is admitted; a request to any other       *)
(* endpoint is never answered RateLimited and changes no bucket.           *)
C22_Step ==
    peer = NoPeer /\ peer' # NoPeer =>
        IF resp'.op \in DocumentWrites \cup {"PostDocumentShare"}
        THEN /\ AdmittedTo(peer'.ip, peer'.path) >= cfg.RateLimit.Requests =>
                  resp'.status = StatusTooManyRequests
             /\ resp'.status # StatusTooManyRequests =>
                  AdmittedIn(buckets', peer'.ip, peer'.path) =
                      AdmittedTo(peer'.ip, peer'.path) + 1
        ELSE /\ resp'.status # StatusTooManyRequests
             /\ buckets' = buckets

C22_WritesAndShareLimited == [][C22_Step]_vars

\* a share request refused by the limiter
C22_Witness ==
    /\ resp.op = "PostDocumentShare"
    /\ resp.status = StatusTooManyRequests
    /\ AdmittedTo(peer.ip, peer.path) = cfg.RateLimit.Requests

---------------------------------------------------------------------------
(* C23: on a server whose rate limit is unset, or has a request count of   *)
(* zero, or a window of zero, no request is answered RateLimited and no    *)
(* bucket is ever kept.                                                    *)
C23_DisabledNeverLimits ==
    cfg.RateLimit.Requests = 0 \/ cfg.RateLimit.Duration = 0 =>
        /\ resp.status # StatusTooManyRequests
        /\ buckets = NoBuckets

\* with a budget of no requests per window, an update served after more
\* writes than LimitRequests have stored their rows
C23_Witness ==
    /\ cfg.RateLimit.Requests = 0
    /\ cfg.RateLimit.Duration > 0
    /\ resp.op = "PatchDocument"
    /\ resp.status = StatusOK
    /\ Cardinality(Rows(documents, resp.id)) >= 2
    /\ Cardinality(documents) > LimitRequests

---------------------------------------------------------------------------
(* C24: a create, or an update by a holder of the write permission, that   *)
(* carries a body and is not already cancelled, is answered Invalid and    *)
(* writes no row when a maximum size M > 0 is configured and the content   *)
(* has more than M characters; content of M characters or fewer, and any   *)
(* content when M = 0, is not answered Invalid.                            *)
C24_Step ==
    ( /\ resp = NoResp
      /\ resp'.op \in {"PostDocument", "PatchDocument"}
      /\ IsUpdate(resp') => Holds(resp', PermissionWrite)
      /\ resp'.req.Content # ""
      /\ resp'.status # StatusGatewayTimeout )
        => IF cfg.MaxDocumentSize > 0 /\ Len(resp'.req.Content) > cfg.MaxDocumentSize
           THEN resp'.status = StatusBadRequest /\ documents' = documents
           ELSE resp'.status # StatusBadRequest

---------------------------------------------------------------------------
(* C25: an update, delete-all or delete-version request whose claims do    *)
(* not authorize it is answered NotFound with an empty body and changes no *)
(* row, whether the document or version it names is stored or not, so the  *)
(* answer is the same with and without the target.                         *)
C25_Step ==
    ( \/ IsUpdate(resp') /\ ~Holds(resp', PermissionWrite)
      \/ IsDeleteAll(resp') /\ ~Holds(resp', PermissionDelete)
      \/ IsDeleteVersion(resp') /\ ~Holds(resp', PermissionDelete) )
        => /\ resp'.status = StatusNotFound
           /\ resp'.out = NoOut
           /\ documents' = documents

C25_ExistenceHidden == [][C25_Step]_vars

---------------------------------------------------------------------------
\* the permission gate at the head of PatchDocument and DeleteDocument
\* denies the request r
GateDenies(r) ==
    \/ r.op = "PatchDocument" /\ ~Holds(r, PermissionWrite)
    \/ r.op = "DeleteDocument" /\ ~Holds(r, PermissionDelete)

(* C26 as written: a mutating request that the permission gate denies      *)
(* never reaches the limiter: it is not answered RateLimited and changes   *)
(* no bucket.                                                              *)
C26_StepGateFirst ==
    peer = NoPeer /\ peer' # NoPeer /\ GateDenies(resp') =>
        /\ resp'.status # StatusTooManyRequests
        /\ buckets' = buckets

C26_GateBeforeLimiter == [][C26_StepGateFirst]_vars

(* C26: for an update or delete request the limiter decides first, the     *)
(* handler's permission gate second, the store is written last: a request  *)
(* whose bucket is full is answered RateLimited whatever its claims; a     *)
(* request the gate denies, when the limiter admitted it, is answered      *)
(* NotFound and has been counted in its bucket; rows change only for a     *)
(* request that was admitted and counted.                                  *)
C26_Step ==
    ( /\ peer = NoPeer
      /\ resp'.op \in {"PatchDocument", "DeleteDocument"} ) =>
        LET counted == AdmittedIn(buckets', peer'.ip, peer'.path) =
                           AdmittedTo(peer'.ip, peer'.path) + 1
        IN /\ AdmittedTo(peer'.ip, peer'.path) >= cfg.RateLimit.Requests =>
                resp'.status = StatusTooManyRequests
           /\ resp'.status = StatusTooManyRequests =>
                documents' = documents /\ buckets' = buckets
           /\ GateDenies(resp') /\ resp'.status # StatusTooManyRequests =>
                resp'.status = StatusNotFound /\ documents' = documents /\ counted
           /\ documents' # documents => ~GateDenies(resp') /\ counted

C26_LimiterBeforeGate == [][C26_Step]_vars

\* an update answered RateLimited on a server where no document was ever
\* created: the budget was used up by requests the gate denied
C26_Witness ==
    /\ IsUpdate(resp)
    /\ resp.status = StatusTooManyRequests
    /\ tokens = {}
    /\ documents = {}
    /\ AdmittedTo(peer.ip, peer.path) = cfg.RateLimit.Requests

---------------------------------------------------------------------------
(* C27: of two updates of one document by holders of the write permission  *)
(* that are stamped with the same clock second, the one whose insert comes *)
(* second succeeds too: it is answered OK, its row is stored beside the    *)
(* row of the first, and get_latest returns what it wrote.                 *)
C27_Step ==
    ( /\ IsUpdate(resp')
      /\ Holds(resp', PermissionWrite)
      /\ resp'.req.Content # ""
      /\ HasKey(documents, resp'.id, now)
      /\ \E d \in Rows(documents, resp'.id) : d.Version < now )
        => /\ resp'.status = StatusOK
           /\ Cardinality(Rows(documents', resp'.id)) =
                 Cardinality(Rows(documents, resp'.id)) + 1
           /\ Latest(documents', resp'.id).Content = resp'.req.Content

C27_SameSecondUpdatesBothStored == [][C27_Step]_vars

---------------------------------------------------------------------------
\* the document a served request r is about: the one its path names, or
\* the one a create has made
Target(r) == IF r.op = "PostDocument" THEN r.out.Key ELSE r.id

\* the writes a request can ask of the store, by kind and document
StoreWrites ==
    [kind : {"create", "update", "delete", "deleteVersion"},
     id : DocumentIDs, content : {Runes(1)}, version : 1..MaxTime]

\* the table after the write w, as the database layer leaves it
Written(docs, w) ==
    IF w.kind = "create" THEN DB_CreateDocument(docs, w.id, w.content, "").docs
    ELSE IF w.kind = "update" THEN DB_UpdateDocument(docs, w.id, w.content, "").docs
    ELSE IF w.kind = "delete" THEN DB_DeleteDocument(docs, w.id).docs
    ELSE DB_DeleteDocumentByVersion(docs, w.id, w.version).docs

\* two writes to different documents leave the same table in either order
WritesCommute(docs) ==
    \A w1, w2 \in StoreWrites :
        w1.id # w2.id =>
            Written(Written(docs, w1), w2) = Written(Written(docs, w2), w1)

(* C29: a request changes the rows of no document but the one it is about, *)
(* and in every table the requests reach (the table before and the table   *)
(* after every change) two writes to different document IDs leave the same *)
(* rows whichever of them the table runs first.                            *)
C29_Step ==
    /\ \A id \in DocumentIDs :
          id # Target(resp') => Rows(documents', id) = Rows(documents, id)
    /\ documents' # documents =>
          WritesCommute(documents) /\ WritesCommute(documents')

---------------------------------------------------------------------------
(* C30: no stored row has version 0; a read that carries no version is     *)
(* served the latest row of the document (NotFound when it has none), and  *)
(* a delete that carries no version, by a holder of the delete permission, *)
(* removes every row of the document; the only other answer to either is   *)
(* the storage error of a failed statement.                                *)
C30_Step ==
    /\ \A d \in documents' : d.Version # 0
    /\ ( resp'.op = "GetDocument" /\ resp'.ver = "" ) =>
          IF Rows(documents, resp'.id) = {}
          THEN resp'.status \in {StatusNotFound, StatusInternalServerError}
          ELSE \/ resp'.status = StatusInternalServerError
               \/ /\ resp'.status = StatusOK
                  /\ resp'.out.Key = resp'.id
                  /\ resp'.out.Data = Latest(documents, resp'.id).Content
    /\ ( /\ IsDeleteAll(resp')
         /\ Holds(resp', PermissionDelete)
         /\ Rows(documents, resp'.id) # {} ) =>
          \/ resp'.status = StatusInternalServerError /\ documents' = documents
          \/ /\ resp'.status = StatusNoContent
             /\ Rows(documents', resp'.id) = {}

C30_VersionZeroIsSentinel == [][C30_Step]_vars

\* a read without a version answered with the content of the later of two
\* rows that differ in content
C30_Witness ==
    /\ resp.op = "GetDocument"
    /\ resp.ver = ""
    /\ resp.status = StatusOK
    /\ \E d \in Rows(documents, resp.id) :
          /\ d.Version < Latest(documents, resp.id).Version
          /\ d.Content # Latest(documents, resp.id).Content
    /\ resp.out.Data = Latest(documents, resp.id).Content

---------------------------------------------------------------------------
\* the request r carries a {version} segment that is not an integer
MalformedVersion(r) == r.ver # "" /\ ParseInt(r.ver).err

(* C31 as written: a request whose {version} segment is not an integer is  *)
(* answered Invalid and leaves every row in place.                         *)
C31_StepInvalid ==
    MalformedVersion(resp') =>
        resp'.status = StatusBadRequest /\ documents' = documents

C31_MalformedVersionInvalid == [][C31_StepInvalid]_vars

(* C31: a request whose {version} segment is not an integer is answered    *)
(* NotFound with an empty body, whatever its token and whatever rows the   *)
(* document has, and leaves every row in place.                            *)
C31_Step ==
    MalformedVersion(resp') =>
        /\ resp'.status = StatusNotFound
        /\ resp'.out = NoOut
        /\ documents' = documents

C31_MalformedVersionNotFound == [][C31_Step]_vars

\* a delete with a malformed version by a holder of the delete permission
\* for a document that has rows
C31_Witness ==
    /\ MalformedVersion(resp)
    /\ resp.op \in {"DeleteDocument", "DeleteDocumentVersion"}
    /\ Holds(resp, PermissionDelete)
    /\ Rows(documents, resp.id) # {}
    /\ resp.status = StatusNotFound

---------------------------------------------------------------------------
(* C32: a read-version or delete-version request that names an integer v,  *)
(* zero and the negative ones among them, for which the document has no    *)
(* row (id, v) is answered NotFound and leaves every row in place.         *)
C32_Step ==
    ( /\ NamesInteger(resp') \/ IsDeleteVersion(resp')
      /\ ~ParseInt(resp'.ver).err
      /\ ~HasKey(documents, resp'.id, ParseInt(resp'.ver).val) )
        => resp'.status = StatusNotFound /\ documents' = documents

C32_AbsentVersionNotFound == [][C32_Step]_vars

---------------------------------------------------------------------------
(* C33: a create, update, delete-all or delete-version request that is     *)
(* answered with an error leaves the table with exactly the rows it had,   *)
(* and every row belongs to a document whose create returned its token.    *)
C33_Step ==
    /\ ( /\ resp'.op \in DocumentWrites
         /\ resp'.status \notin {StatusOK, StatusNoContent} )
          => documents' = documents
    /\ \A d \in documents' :
          \E t \in tokens' : t = NewToken(d.ID, CreatorPermissions)

C33_ErrorLeavesStore == [][C33_Step]_vars

---------------------------------------------------------------------------
(* C34: every token issued is for a document that a create produced and    *)
(* holds permissions out of {write, delete, share}; a token comes into     *)
(* being only as the token of a new document or through a share request    *)
(* that carried an issued token T holding share, and then it has T's       *)
(* subject and a subset of T's permissions; a share request whose token    *)
(* lacks share issues nothing.                                             *)
C34_Step ==
    /\ \A t \in tokens' :
          /\ t.Permissions \subseteq Permissions
          /\ CreatorToken(t.Subject) \in tokens'
    /\ \A t \in tokens' \ tokens :
          \/ /\ resp'.op = "PostDocument"
             /\ t = CreatorToken(resp'.out.Key)
             /\ Rows(documents, t.Subject) = {}
             /\ Rows(documents', t.Subject) # {}
          \/ /\ IsShare(resp')
             /\ resp'.claims \in tokens
             /\ PermissionShare \in resp'.claims.Permissions
             /\ t.Subject = resp'.claims.Subject
             /\ t.Permissions \subseteq resp'.claims.Permissions
    /\ ( IsShare(resp') /\ PermissionShare \notin resp'.claims.Permissions ) =>
          /\ resp'.out.Token = <<>>
          /\ tokens' = tokens

C34_DelegationNeverWidens == [][C34_Step]_vars

\* a token that is not a creator's token has obtained a token by share
C34_Witness ==
    /\ IsShare(resp)
    /\ resp.status = StatusOK
    /\ resp.claims # CreatorToken(resp.id)
    /\ resp.out.Token[1] \in tokens
    /\ resp.out.Token[1].Permissions \subseteq resp.claims.Permissions

---------------------------------------------------------------------------
\* the requests served together that have been answered
Answered(pend, op, id) == {p \in pend : p.op = op /\ p.id = id /\ p.status # 0}

\* id has lost its rows to a delete-all served together with an update
DeletedBesideUpdate(pend, id) ==
    /\ \E p \in Answered(pend, "DeleteDocument", id) : p.status = StatusNoContent
    /\ Answered(pend, "PatchDocument", id) # {}
    /\ \A p \in pend : p.id = id => p.status # 0

(* C35: when an authorized update and an authorized delete-all of the same *)
(* document are served together, in whatever order their steps fall, then  *)
(* once the delete-all has succeeded and both have been answered the       *)
(* document has no rows; and no step of an update stores a row for a       *)
(* document that has none.                                                 *)
C35_Step ==
    /\ \A id \in DocumentIDs :
          DeletedBesideUpdate(pending', id) => Rows(documents', id) = {}
    /\ \A id \in DocumentIDs :
          ( Rows(documents, id) = {} /\ Rows(documents', id) # {} ) =>
              /\ resp'.op = "PostDocument"
              /\ pending' = pending

---------------------------------------------------------------------------
\* the permission the gate of r's handler asks for
Required(r) ==
    IF r.op = "PatchDocument" THEN PermissionWrite
    ELSE IF r.op = "DeleteDocument" THEN PermissionDelete
    ELSE PermissionShare

\* r went to a handler with a gate and passed the checks made before the
\* gate: the {version} segment of a delete, the body of a share request
ReachesGate(r) ==
    \/ r.op = "PatchDocument"
    \/ /\ r.op = "DeleteDocument"
       /\ ~MalformedVersion(r)
       /\ r.ver # ToString(0 - 1)
    \/ WellFormedShare(r)

\* the rows a request that passed the gate is about: all of the document,
\* or the one version a delete names
RowsAskedFor(r, docs) ==
    IF r.op = "DeleteDocument" /\ r.ver # "" /\ ParseInt(r.ver).val # 0
    THEN {d \in Rows(docs, r.id) : d.Version = ParseInt(r.ver).val}
    ELSE Rows(docs, r.id)

(* C36: whether a request is let through the gate is decided by its claims, *)
(* the document it names and the permission its handler asks for, and by    *)
(* nothing else: in every state a request without that permission for that  *)
(* document is answered NotFound, changes no row and gets no token, and a   *)
(* request with it is never turned away by the gate (an update or delete is *)
(* answered NotFound only when the rows it asks for are not there, a share  *)
(* request is answered by its body and claims alone); no token is ever      *)
(* taken back.                                                              *)
C36_Step ==
    /\ tokens \subseteq tokens'
    /\ ( resp' # resp /\ ReachesGate(resp') ) =>
          IF ~Holds(resp', Required(resp'))
          THEN /\ resp'.status = StatusNotFound
               /\ documents' = documents
               /\ tokens' = tokens
               /\ resp'.out.Token = <<>>
          ELSE /\ resp'.status = StatusNotFound =>
                    /\ ~IsShare(resp')
                    /\ RowsAskedFor(resp', documents) = {}
               /\ IsShare(resp') =>
                    resp'.status =
                        IF resp'.req.Permissions \subseteq resp'.claims.Permissions
                        THEN StatusOK ELSE StatusForbidden

C36_GateIsStateless == [][C36_Step]_vars

\* the creator's token still shares after a token was issued from it and
\* after every row of its document was deleted
C36_Witness ==
    /\ IsShare(resp)
    /\ resp.status = StatusOK
    /\ resp.claims = CreatorToken(resp.id)
    /\ FullyDeleted(documents, resp.id)
    /\ \E t \in tokens : t.Subject = resp.id /\ t # CreatorToken(resp.id)

====
